---- MODULE Spec2Model ----
(***************************************************************************)
(* Model of the RFC document conversion service (src/at/api.py) and of its *)
(* xml2rfc log helpers (src/at/utils/logs.py).                             *)
(*                                                                         *)
(* A request to POST /api/render/<format> is handled by render(), which    *)
(* validates the upload, allocates a workspace directory, saves the        *)
(* upload, converts markdown/text to XML with an external tool, parses and *)
(* upgrades the XML (get_xml), and renders it (get_html/get_text/get_pdf,  *)
(* each of which runs prep_xml first).  Every request is a process of the  *)
(* model; its steps interleave with the steps of the other requests.       *)
(*                                                                         *)
(* A filename is a sequence of tokens: the token "." is a dot, every other *)
(* token is a dot-free run of characters.  No two dot-free tokens are      *)
(* adjacent, so splitting at dots works on tokens exactly as it works on   *)
(* characters.                                                             *)
(*                                                                         *)
(* process_xml2rfc_log and update_logs are called by nothing in api.py;    *)
(* they are checked on their own: SpecLogs classifies every stderr text of *)
(* Outputs, SpecMerge merges classified logs into one accumulator.         *)
(***************************************************************************)
EXTENDS Integers, Sequences, FiniteSets, TLC

\* ------------------------------------------------------------------ bounds
NumReq == 2
NumUuid == 2
\* The longest stderr text given to process_xml2rfc_log, in tokens, and the
\* most calls of update_logs in one behaviour.
MaxStderrLen == 5
MaxMerges == 3

Req == 1..NumReq
\* The values uuid4() can return.  NumUuid is small so that two requests can
\* draw the same value.
Uuids == 1..NumUuid

\* --------------------------------------------------------------- constants
ALLOWED_EXTENSIONS == {"txt", "xml", "md", "mkd"}

\* The number an octal literal of three digits denotes.
Octal(a, b, c) == a * 64 + b * 8 + c

\* The default mode of os.mkdir.
DIR_MODE_Default == Octal(7, 7, 7)

\* DIR_MODE = 0o770
DIR_MODE == Octal(7, 7, 0)
METADATA_JS_URL == "https://www.rfc-editor.org/js/metadata.min.js"

\* ------------------------------------------------------------ filenames
Dot == "."

\* str.lower() on the tokens the model uses.
Lower(tok) ==
    CASE tok = "MD" -> "md"
      [] tok = "MKD" -> "mkd"
      [] tok = "TXT" -> "txt"
      [] tok = "XML" -> "xml"
      [] tok = "A" -> "a"
      [] OTHER -> tok

DotPositions(fn) == {i \in 1..Len(fn) : fn[i] = Dot}

Max(S) == CHOOSE x \in S : \A y \in S : y <= x

\* filename.rsplit('.', 1)[1]: what follows the last dot ("" when the dot is
\* the last character).
RSplitLast(fn) ==
    LET d == Max(DotPositions(fn))
    IN  IF d = Len(fn) THEN "" ELSE fn[Len(fn)]

allowed_file(fn) ==
    /\ DotPositions(fn) # {}
    /\ Lower(RSplitLast(fn)) \in ALLOWED_EXTENSIONS

RECURSIVE StripLeft(_)
StripLeft(fn) ==
    IF fn # <<>> /\ Head(fn) = Dot THEN StripLeft(Tail(fn)) ELSE fn

RECURSIVE StripRight(_)
StripRight(fn) ==
    IF fn # <<>> /\ fn[Len(fn)] = Dot
    THEN StripRight(SubSeq(fn, 1, Len(fn) - 1))
    ELSE fn

\* werkzeug's secure_filename on these tokens: leading and trailing dots are
\* stripped (the tokens hold no separators, blanks or non-ASCII characters).
secure_filename(fn) == StripRight(StripLeft(fn))

\* os.path.splitext on a leaf name: the extension starts at the last dot,
\* unless only dots come before that dot (leading dots start no extension).
SplitExtIndex(leaf) ==
    LET ds == DotPositions(leaf)
    IN  IF ds = {} THEN 0
        ELSE LET d == Max(ds)
             IN  IF \E i \in 1..(d - 1) : leaf[i] # Dot THEN d ELSE 0

SplitExtRoot(leaf) ==
    IF SplitExtIndex(leaf) = 0 THEN leaf
    ELSE SubSeq(leaf, 1, SplitExtIndex(leaf) - 1)

\* The extension without its dot, "" when there is none.
SplitExtExt(leaf) ==
    IF SplitExtIndex(leaf) = 0 \/ SplitExtIndex(leaf) = Len(leaf) THEN ""
    ELSE leaf[Len(leaf)]

\* A path is a workspace directory and a leaf name.  The directory
\* UPLOAD_DIR/<uuid> is <<uuid>>; <<>> stands for a directory not yet chosen.
Path(d, leaf) == [dir |-> d, leaf |-> leaf]

NoPath == Path(<<>>, <<>>)

get_filename(p, ext) == Path(p.dir, SplitExtRoot(p.leaf) \o <<Dot, ext>>)

get_file(p) == p.leaf

\* ------------------------------------------------------------ documents
\* The bytes of a file, as far as the XML engine tells them apart: whether
\* they parse as XML, and the root element's version attribute ("absent"
\* when the root has none).
NotXml == [wf |-> FALSE, ver |-> "absent"]
XmlDoc(v) == [wf |-> TRUE, ver |-> v]
Versions == {"absent", "2", "3", "1"}
Bodies == {NotXml} \cup {XmlDoc(v) : v \in Versions}

\* Output of a renderer: html, text or pdf bytes.
Rendered == NotXml

\* ------------------------------------------------------------ requests
\* What a client sends: the file part of the form (present or not), its
\* filename, its bytes, and the <format> of the URL.
NoUpload == [present |-> FALSE, filename |-> <<>>, body |-> NotXml]
Upload(fn, body) == [present |-> TRUE, filename |-> fn, body |-> body]

FileNames ==
    { <<"a", Dot, "md">>, <<"a", Dot, "MKD">>, <<"a", Dot, "txt">>,
      <<"a", Dot, "xml">>, <<"A", Dot, "XML">>, <<"a", Dot, "b", Dot, "TXT">>,
      <<Dot, "md">>, <<"a", Dot, "pdf">>, <<"a">>, <<>> }

Formats == {"xml", "html", "text", "pdf", "docx"}

StderrTexts == {"line 3: Error: bad", ""}

\* The requests a client may send, and whether the external tools and the
\* operating system may fail.
FullLoad ==
    [uploads |-> {NoUpload} \cup {Upload(fn, b) : fn \in FileNames, b \in Bodies},
     formats |-> Formats,
     stderrs |-> StderrTexts,
     converted |-> Bodies,
     faults |-> BOOLEAN]

\* ------------------------------------------------------------ log values
\* The text of a log is a sequence of tokens: NL is a line feed, "(" an
\* opening parenthesis, "): " a closing parenthesis, a colon and a space,
\* "ERROR: " and "Warning: " the two markers in some letter case, and the
\* other tokens are text without any of these characters.  A match of one of
\* the three patterns lies on token boundaries.
NL == "\n"
LogTokens == {NL, "(", "): ", "ERROR: ", "Warning: ", "x", "12"}

BoundedSeq(T, n) == UNION {[1..k -> T] : k \in 0..n}

\* output.stderr of a finished process: None when the stream was not
\* captured, else its bytes.
NoStderr == [piped |-> FALSE, stderr |-> <<>>]
Stderr(text) == [piped |-> TRUE, stderr |-> text]
\* Longer logs: a numbered error after a prefix, numbered entries of both
\* kinds, and a log of several errors and warnings with lines that are
\* neither.
SampleLogs ==
    { <<"x", "(", "12", "): ", "ERROR: ", "x">>,
      <<"(", "12", "): ", "Warning: ", "x", NL, "(", "x", "): ", "ERROR: ", "12">>,
      <<"ERROR: ", "x", NL, "Warning: ", "12", NL, "x", NL, NL,
        "ERROR: ", "12", NL, "Warning: ", "x", NL>> }

\* Every text of up to MaxStderrLen tokens, and the longer logs.
Outputs ==
    {NoStderr} \cup
    {Stderr(t) : t \in BoundedSeq(LogTokens, MaxStderrLen) \cup SampleLogs}

\* The values of logs and new_entries: None, the empty dict, and a dict with
\* the keys 'errors' and 'warnings'.
None == [py |-> "None", errors |-> <<>>, warnings |-> <<>>]
EmptyDict == [py |-> "{}", errors |-> <<>>, warnings |-> <<>>]
Dict(e, w) == [py |-> "dict", errors |-> e, warnings |-> w]

VARIABLES
    pc,               \* where each request is in render()
    input,            \* the request: its upload and its format
    dir_path,         \* process_file's dir_path
    filename,         \* the path render() carries: the upload, then the XML
    rendered,         \* render()'s rendered_filename
    xmltree,          \* what prep() returned into xmltree.tree: "tree",
                      \* "none" for None, "" while it has not returned
    response,         \* what the caller receives
    trace,            \* the stages invoked for the request, in order
    wrote,            \* the paths the request wrote
    readp,            \* the paths the request read
    captured,         \* output.stderr of the request's converter run
    failed,           \* the stage of the request that raised, "" when none did
    fs,               \* the files under UPLOAD_DIR
    dirs,             \* the directories under UPLOAD_DIR, each with the mode
                      \* it was created with
    default_options,  \* xml2rfc.writers.base.default_options, one object of
                      \* the process: its metadata_js_url, and the request
                      \* that assigned it last (0: none has)
    output,           \* the argument of process_xml2rfc_log
    result,           \* what process_xml2rfc_log returned, None before the call
    logs,             \* the accumulator given to update_logs
    merged            \* the new_entries of the calls of update_logs, in order

vars == <<pc, input, dir_path, filename, rendered, xmltree, response, trace,
          wrote,
          readp, captured, failed, fs, dirs, default_options,
          output, result, logs, merged>>

logvars == <<output, result, logs, merged>>

NoResponse == [kind |-> "none", prefix |-> "", detail |-> <<>>, file |-> NoPath]

\* jsonify(error='<prefix>: <detail>'), BAD_REQUEST
JsonError(prefix, detail) ==
    [kind |-> "json", prefix |-> prefix, detail |-> detail, file |-> NoPath]

\* An exception that leaves render(): Flask answers with its own error page.
Unhandled(exc, detail) ==
    [kind |-> "unhandled", prefix |-> exc, detail |-> detail, file |-> NoPath]

Attachment(p) ==
    [kind |-> "attachment", prefix |-> "", detail |-> <<>>, file |-> p]

\* No request has arrived.
IdleRender ==
    /\ pc = [r \in Req |-> "idle"]
    /\ input = [r \in Req |-> [upload |-> NoUpload, format |-> ""]]
    /\ dir_path = [r \in Req |-> <<>>]
    /\ filename = [r \in Req |-> NoPath]
    /\ rendered = [r \in Req |-> <<>>]
    /\ xmltree = [r \in Req |-> ""]
    /\ response = [r \in Req |-> NoResponse]
    /\ trace = [r \in Req |-> <<>>]
    /\ wrote = [r \in Req |-> {}]
    /\ readp = [r \in Req |-> {}]
    /\ captured = [r \in Req |-> ""]
    /\ failed = [r \in Req |-> ""]
    /\ fs = << >>
    /\ dirs = << >>
    /\ default_options = [metadata_js_url |-> "", by |-> 0]

\* No log has been classified or merged; the accumulator is empty.
IdleLogs ==
    /\ result = None
    /\ logs = Dict(<<>>, <<>>)
    /\ merged = <<>>

Init == IdleRender /\ IdleLogs /\ output = NoStderr

\* ------------------------------------------------------------ helpers
WriteFile(files, p, by, r, doc) ==
    [q \in DOMAIN files \cup {p} |->
        IF q = p THEN [by |-> by, owner |-> r, doc |-> doc] ELSE files[q]]

\* render() returns resp without any stage having raised.
Finish(r, resp) ==
    /\ pc' = [pc EXCEPT ![r] = "done"]
    /\ response' = [response EXCEPT ![r] = resp]
    /\ UNCHANGED failed

\* The stage raised, and resp is what the caller receives for it.
Fail(r, stage, resp) ==
    /\ pc' = [pc EXCEPT ![r] = "done"]
    /\ response' = [response EXCEPT ![r] = resp]
    /\ failed' = [failed EXCEPT ![r] = stage]

\* The request goes on to the next step of render().
Goto(r, where) ==
    /\ pc' = [pc EXCEPT ![r] = where]
    /\ UNCHANGED <<response, failed>>

Invoke(r, stage) == trace' = [trace EXCEPT ![r] = Append(@, stage)]

\* ------------------------------------------------------------ render()
\* ValidationError without the test of the extension (line 245).
ValidationError_NoExtCheck(up) ==
    IF ~up.present THEN "No file"
    ELSE IF up.filename = <<>> THEN "Filename missing"
    ELSE ""

\* Lines 237-247 and 287-289: the checks before any processing.
ValidationError(up) ==
    IF ~up.present THEN "No file"
    ELSE IF up.filename = <<>> THEN "Filename missing"
    ELSE IF ~allowed_file(up.filename) THEN "input file format not supported"
    ELSE ""

Receive(r, load) ==
    /\ pc[r] = "idle"
    /\ \E up \in load.uploads, fmt \in load.formats :
        /\ input' = [input EXCEPT ![r] = [upload |-> up, format |-> fmt]]
        /\ IF ValidationError(up) # ""
           THEN Finish(r, JsonError(ValidationError(up), <<>>))
           ELSE Goto(r, "process_file")
    /\ UNCHANGED <<logvars, xmltree, dir_path, filename, rendered, trace,
                   wrote, readp, captured, fs, dirs, default_options>>

\* The handlers around process_file (lines 250-254).
ProcessFileCatches(exc) == exc \in {"KramdownError", "TextError"}

\* The handler around get_xml (line 258).
GetXmlCatches(exc) == exc = "XML2RFCError"

\* The handler around the format dispatch (line 280).
DispatchCatches(exc) == exc = "XML2RFCError"

\* The text each handler puts before the exception's message.
ErrorPrefix(exc) ==
    CASE exc = "KramdownError" -> "kramdown-rfc2629 error"
      [] exc = "TextError" -> "id2xml error"
      [] exc = "XML2RFCError" -> "xml2rfc error"
      [] OTHER -> exc

\* What the caller receives when exc is raised inside a try statement of
\* render() whose handlers catch it (caught) or do not.
Raised(caught, exc, detail) ==
    IF caught THEN JsonError(ErrorPrefix(exc), detail)
    ELSE Unhandled(exc, detail)

\* ------------------------------------------------------------ process_file
mkdir_ExistOk(existing, d, fault) == IF fault THEN "OSError" ELSE ""

\* os.mkdir(dir_path, mode=DIR_MODE): fails when the directory exists, or
\* when the operating system refuses (fault).  "" stands for success.
mkdir(existing, d, fault) ==
    IF d \in existing THEN "FileExistsError"
    ELSE IF fault THEN "OSError"
    ELSE ""

\* Lines 63-66.
MakeWorkspace(r, load) ==
    /\ pc[r] = "process_file"
    /\ Invoke(r, "mkdir")
    /\ \E u \in Uuids, fault \in load.faults :
        LET exc == mkdir(DOMAIN dirs, <<u>>, fault)
        IN  IF exc = ""
            THEN /\ dirs' = [d \in DOMAIN dirs \cup {<<u>>} |->
                                IF d = <<u>> THEN DIR_MODE ELSE dirs[d]]
                 /\ dir_path' = [dir_path EXCEPT ![r] = <<u>>]
                 /\ Goto(r, "save")
            ELSE /\ Fail(r, "mkdir", Raised(ProcessFileCatches(exc), exc, <<>>))
                 /\ UNCHANGED <<dirs, dir_path>>
    /\ UNCHANGED <<logvars, xmltree, input, filename, rendered, wrote, readp,
                   captured, fs, default_options>>

\* Lines 68-73.
SaveUpload(r) ==
    /\ pc[r] = "save"
    /\ Invoke(r, "save")
    /\ LET p == Path(dir_path[r], secure_filename(input[r].upload.filename))
       IN  /\ filename' = [filename EXCEPT ![r] = p]
           /\ fs' = WriteFile(fs, p, "save", r, input[r].upload.body)
           /\ wrote' = [wrote EXCEPT ![r] = @ \cup {p}]
    /\ Goto(r, "convert")
    /\ UNCHANGED <<logvars, xmltree, input, dir_path, rendered, readp,
                   captured, dirs, default_options>>

\* Lines 75-80: the converter the extension of the saved file selects.
ConverterFor(p) ==
    LET file_ext == Lower(SplitExtExt(p.leaf))
    IN  IF file_ext \in {"md", "mkd"} THEN "md2xml"
        ELSE IF file_ext = "txt" THEN "txt2xml"
        ELSE "none"

ConverterError_AlwaysKramdown(conv) == "KramdownError"

\* The exception each converter raises on a non-zero exit status.
ConverterError(conv) ==
    IF conv = "md2xml" THEN "KramdownError" ELSE "TextError"

\* Lines 85-107: kramdown-rfc2629 prints the XML, md2xml writes it.
md2xml(r, load) ==
    \E fails \in load.faults, err \in load.stderrs, doc \in load.converted :
        LET xml_file == get_filename(filename[r], "xml")
            exc == ConverterError("md2xml")
        IN  /\ captured' = [captured EXCEPT ![r] = err]
            /\ IF fails
               THEN /\ Fail(r, "md2xml",
                            Raised(ProcessFileCatches(exc), exc, <<err>>))
                    /\ UNCHANGED <<filename, fs, wrote>>
               ELSE /\ fs' = WriteFile(fs, xml_file, "md2xml", r, doc)
                    /\ wrote' = [wrote EXCEPT ![r] = @ \cup {xml_file}]
                    /\ filename' = [filename EXCEPT ![r] = xml_file]
                    /\ Goto(r, "normalize")

\* Lines 110-129: id2xml writes the XML itself (--out); when it fails it may
\* or may not have left a file there.
txt2xml(r, load) ==
    \E fails \in load.faults, err \in load.stderrs, doc \in load.converted,
       left \in BOOLEAN :
        LET xml_file == get_filename(filename[r], "xml")
            exc == ConverterError("txt2xml")
        IN  /\ captured' = [captured EXCEPT ![r] = err]
            /\ IF fails
               THEN /\ Fail(r, "txt2xml",
                            Raised(ProcessFileCatches(exc), exc, <<err>>))
                    /\ IF left
                       THEN /\ fs' = WriteFile(fs, xml_file, "txt2xml", r, NotXml)
                            /\ wrote' = [wrote EXCEPT ![r] = @ \cup {xml_file}]
                       ELSE UNCHANGED <<fs, wrote>>
                    /\ UNCHANGED filename
               ELSE /\ ~left
                    /\ fs' = WriteFile(fs, xml_file, "txt2xml", r, doc)
                    /\ wrote' = [wrote EXCEPT ![r] = @ \cup {xml_file}]
                    /\ filename' = [filename EXCEPT ![r] = xml_file]
                    /\ Goto(r, "normalize")

\* Lines 75-82.
Convert(r, load) ==
    /\ pc[r] = "convert"
    /\ LET conv == ConverterFor(filename[r])
       IN  IF conv = "none"
           THEN /\ Goto(r, "normalize")
                /\ UNCHANGED <<filename, fs, wrote, trace, readp, captured>>
           ELSE /\ Invoke(r, conv)
                /\ readp' = [readp EXCEPT ![r] = @ \cup {filename[r]}]
                /\ IF conv = "md2xml" THEN md2xml(r, load) ELSE txt2xml(r, load)
    /\ UNCHANGED <<logvars, xmltree, input, dir_path, rendered, dirs,
                   default_options>>

\* ------------------------------------------------------------ get_xml
\* XmlRfcParser.parse: the exception it raises, "" when the file parses.
ParseError(doc) == IF doc.wf THEN "" ELSE "XMLSyntaxError"

\* Line 142: xmlroot.get('version', '2').
RootVersion(doc) == IF doc.ver = "absent" THEN "2" ELSE doc.ver

NeedsUpgrade_Inverted(version) == version # "2"

\* Line 145: the documents that go through the v2-to-v3 conversion.
NeedsUpgrade(version) == version = "2"

\* V2v3XmlWriter.convert2to3: the converted tree is a version 3 document.
convert2to3(doc) == XmlDoc("3")

\* Lines 142-151 on a document that parses: whether get_xml rewrites the
\* file, and the document the file holds when get_xml returns.
get_xml_writes(doc) == NeedsUpgrade(RootVersion(doc))

get_xml_doc(doc) == IF get_xml_writes(doc) THEN convert2to3(doc) ELSE doc

GetXmlRaises_Unwrapped(exc) == exc

\* The handler inside get_xml (lines 152-154): the exception that leaves
\* get_xml when exc is raised inside its try statement.
GetXmlRaises(exc) == IF exc = "XMLSyntaxError" THEN "XML2RFCError" ELSE exc

\* Lines 132-157 and the handler of lines 256-259.  A failure of the upgrade
\* (the conversion, or the write of the file) raises an exception that is not
\* XMLSyntaxError; it is modelled as RfcWriterError.
Normalize(r, load) ==
    /\ pc[r] = "normalize"
    /\ Invoke(r, "get_xml")
    /\ readp' = [readp EXCEPT ![r] = @ \cup {filename[r]}]
    /\ LET doc == fs[filename[r]].doc
           perr == ParseError(doc)
       IN  IF perr # ""
           THEN /\ Fail(r, "get_xml",
                        Raised(GetXmlCatches(GetXmlRaises(perr)),
                               GetXmlRaises(perr), <<perr>>))
                /\ UNCHANGED <<fs, wrote>>
           ELSE IF get_xml_writes(doc)
           THEN \E fails \in load.faults :
                    IF fails
                    THEN /\ Fail(r, "get_xml", Raised(
                                GetXmlCatches(GetXmlRaises("RfcWriterError")),
                                GetXmlRaises("RfcWriterError"), <<"v2v3">>))
                         /\ UNCHANGED <<fs, wrote>>
                    ELSE /\ fs' = WriteFile(fs, filename[r], "get_xml", r,
                                            get_xml_doc(doc))
                         /\ wrote' = [wrote EXCEPT ![r] = @ \cup {filename[r]}]
                         /\ Goto(r, "dispatch")
           ELSE /\ Goto(r, "dispatch")
                /\ UNCHANGED <<fs, wrote>>
    /\ UNCHANGED <<logvars, xmltree, input, dir_path, filename, rendered,
                   captured, dirs, default_options>>

\* ------------------------------------------------------------ prep_xml
\* What PrepToolWriter.prep() can do: return a tree, return None with the
\* errors it collected (possibly none), or raise RfcWriterError.
PrepOutcomes(load) ==
    {[kind |-> "tree", errors |-> <<>>]}
    \cup (IF TRUE \in load.faults
          THEN {[kind |-> "none", errors |-> <<>>],
                [kind |-> "none", errors |-> <<"prep: missing title">>],
                [kind |-> "raise", errors |-> <<"prep: invalid">>]}
          ELSE {})

\* The handler inside prep_xml (lines 172-174).
PrepXmlRaises(exc) == IF exc = "RfcWriterError" THEN "XML2RFCError" ELSE exc

\* Line 171: what prep() leaves in xmltree.tree, "" when the parser or prep()
\* raised instead.
PrepReturned(doc, outcome) ==
    IF ParseError(doc) = "" /\ outcome.kind # "raise" THEN outcome.kind ELSE ""

\* prep_xml without the test of lines 176-177.
prep_xml_NoNoneCheck(doc, outcome) ==
    IF ParseError(doc) # "" THEN PrepXmlRaises(ParseError(doc))
    ELSE IF outcome.kind = "raise" THEN PrepXmlRaises("RfcWriterError")
    ELSE ""

\* Lines 160-179: the exception that leaves prep_xml, "" when it returns
\* the tree.
prep_xml(doc, outcome) ==
    IF ParseError(doc) # "" THEN PrepXmlRaises(ParseError(doc))
    ELSE IF outcome.kind = "raise" THEN PrepXmlRaises("RfcWriterError")
    ELSE IF outcome.kind = "none" THEN "XML2RFCError"
    ELSE ""

\* ------------------------------------------------------------ dispatch
PrepFormats == {"html", "text", "pdf"}

Branch_AlwaysRender(fmt) ==
    IF fmt \in PrepFormats \cup {"xml"} THEN "render" ELSE "unsupported"

\* The branch of lines 264-279 a format takes.
Branch(fmt) ==
    IF fmt = "xml" THEN "passthrough"
    ELSE IF fmt \in PrepFormats THEN "render"
    ELSE "unsupported"

\* Lines 263-281 up to the return of prep_xml: the xml format takes the
\* normalized file as it is, html/text/pdf enter get_html/get_text/get_pdf,
\* whose first statement is prep_xml, any other format is refused.
Dispatch(r, load) ==
    /\ pc[r] = "dispatch"
    /\ LET branch == Branch(input[r].format)
       IN  IF branch = "passthrough"
           THEN /\ rendered' = [rendered EXCEPT ![r] = get_file(filename[r])]
                /\ Goto(r, "send")
                /\ UNCHANGED <<trace, readp, xmltree>>
           ELSE IF branch = "render"
           THEN /\ Invoke(r, "prep_xml")
                /\ readp' = [readp EXCEPT ![r] = @ \cup {filename[r]}]
                /\ \E outcome \in PrepOutcomes(load) :
                    LET exc == prep_xml(fs[filename[r]].doc, outcome)
                    IN  /\ xmltree' = [xmltree EXCEPT ![r] =
                                PrepReturned(fs[filename[r]].doc, outcome)]
                        /\ IF exc = ""
                           THEN Goto(r, IF input[r].format = "html"
                                        THEN "options" ELSE "write")
                           ELSE Fail(r, "prep_xml",
                                     Raised(DispatchCatches(exc), exc,
                                            outcome.errors))
                /\ UNCHANGED rendered
           ELSE /\ Finish(r, JsonError("render format not supported", <<>>))
                /\ UNCHANGED <<rendered, trace, readp, xmltree>>
    /\ UNCHANGED <<logvars, input, dir_path, filename, wrote, captured, fs,
                   dirs, default_options>>

\* ------------------------------------------------------------ writers
WriterFor(fmt) ==
    CASE fmt = "html" -> "HtmlWriter"
      [] fmt = "text" -> "TextWriter"
      [] fmt = "pdf" -> "PdfWriter"

\* The extension of the file each writer produces (lines 194, 209, 224).
OutputExt(fmt) ==
    CASE fmt = "html" -> "html"
      [] fmt = "text" -> "txt"
      [] fmt = "pdf" -> "pdf"

\* Lines 188-189 of get_html: options is the default_options object itself,
\* so the assignment changes it for the whole process.
SetOptions(r) ==
    /\ pc[r] = "options"
    /\ default_options' = [metadata_js_url |-> METADATA_JS_URL, by |-> r]
    /\ Goto(r, "write")
    /\ UNCHANGED <<logvars, xmltree, input, dir_path, filename, rendered,
                   trace, wrote, readp, captured, fs, dirs>>

\* The rest of get_html (lines 191-198), get_text (206-213) and get_pdf
\* (221-228): the writer may raise RfcWriterError, which nothing catches as
\* such.  HtmlWriter is given default_options as its options.
Write(r, load) ==
    /\ pc[r] = "write"
    /\ LET fmt == input[r].format
           out_file == get_filename(filename[r], OutputExt(fmt))
       IN  /\ Invoke(r, WriterFor(fmt))
           /\ \E fails \in load.faults :
                IF fails
                THEN /\ Fail(r, WriterFor(fmt),
                             Raised(DispatchCatches("RfcWriterError"),
                                    "RfcWriterError", <<"render">>))
                     /\ UNCHANGED <<fs, wrote, rendered>>
                ELSE /\ fs' = WriteFile(fs, out_file, WriterFor(fmt), r, Rendered)
                     /\ wrote' = [wrote EXCEPT ![r] = @ \cup {out_file}]
                     /\ rendered' = [rendered EXCEPT ![r] = get_file(out_file)]
                     /\ Goto(r, "send")
    /\ UNCHANGED <<logvars, xmltree, input, dir_path, filename, readp,
                   captured, dirs, default_options>>

\* Lines 283-286: send_from_directory(dir_path, get_file(rendered_filename)).
Send(r) ==
    /\ pc[r] = "send"
    /\ LET p == Path(dir_path[r], rendered[r])
       IN  /\ readp' = [readp EXCEPT ![r] = @ \cup {p}]
           /\ IF p \in DOMAIN fs
              THEN Finish(r, Attachment(p))
              ELSE Fail(r, "send_from_directory", Unhandled("NotFound", <<>>))
    /\ UNCHANGED <<logvars, xmltree, input, dir_path, filename, rendered,
                   trace, wrote, captured, fs, dirs, default_options>>

\* ------------------------------------------------------------ specification
Step(r, load) ==
    \/ Receive(r, load)
    \/ MakeWorkspace(r, load)
    \/ SaveUpload(r)
    \/ Convert(r, load)
    \/ Normalize(r, load)
    \/ Dispatch(r, load)
    \/ SetOptions(r)
    \/ Write(r, load)
    \/ Send(r)

\* One request, with every upload, format and failure of FullLoad.
Next == Step(1, FullLoad)

Spec == Init /\ [][Next]_vars

\* Concurrent requests that all upload a file of the same name.
ConcLoad ==
    [uploads |-> {Upload(<<"a", Dot, "md">>, NotXml),
                  Upload(<<"a", Dot, "xml">>, XmlDoc("2"))},
     formats |-> {"xml", "html", "text"},
     stderrs |-> {""},
     converted |-> {XmlDoc("2")},
     faults |-> {FALSE}]

NextConc == \E r \in Req : Step(r, ConcLoad)

SpecConc == Init /\ [][NextConc]_vars

\* ------------------------------------------------------------ xml2rfc logs
Min(S) == CHOOSE x \in S : \A y \in S : x <= y

\* IGNORECASE: the letter case of a marker does not matter to a pattern.
IgnoreCase(tok) ==
    CASE tok = "ERROR: " -> "error: "
      [] tok = "Warning: " -> "warning: "
      [] OTHER -> tok

\* Where the marker stands in the line.
MarkerAt(entry, marker) ==
    {i \in 1..Len(entry) : IgnoreCase(entry[i]) = marker}

NoMatch == [matched |-> FALSE, group |-> <<>>]
Match(g) == [matched |-> TRUE, group |-> g]

\* '^.*?<marker>(?P<message>.*)$': the lazy prefix stops at the first
\* marker, and the message is the rest of the line after it.
SearchMessage(entry, marker) ==
    IF MarkerAt(entry, marker) = {} THEN NoMatch
    ELSE Match(SubSeq(entry, Min(MarkerAt(entry, marker)) + 1, Len(entry)))

XML2RFC_ERROR_REGEX(entry) == SearchMessage(entry, "error: ")
XML2RFC_WARN_REGEX(entry) == SearchMessage(entry, "warning: ")

\* '^.*?\((?P<line>.*?)\): (Error|Warning): ': the first "(" that some "): "
\* directly before a marker closes, and the text up to the first such "): ".
Closes(entry, i) ==
    {j \in (i + 1)..(Len(entry) - 1) :
        /\ entry[j] = "): "
        /\ IgnoreCase(entry[j + 1]) \in {"error: ", "warning: "}}

XML2RFC_LINE_NUMBER_REGEX(entry) ==
    LET opens == {i \in 1..Len(entry) : entry[i] = "(" /\ Closes(entry, i) # {}}
    IN IF opens = {} THEN NoMatch
       ELSE Match(SubSeq(entry, Min(opens) + 1,
                         Min(Closes(entry, Min(opens))) - 1))

\* str.split('\n')
RECURSIVE split(_)
split(text) ==
    IF \A i \in 1..Len(text) : text[i] # NL THEN <<text>>
    ELSE LET i == Min({k \in 1..Len(text) : text[k] = NL})
         IN <<SubSeq(text, 1, i - 1)>> \o split(SubSeq(text, i + 1, Len(text)))

\* Format without the line number.
Format_Bare(line, message) == message

\* f'({line}) {message}' when the line pattern matched with a non-empty
\* group, else the message.
Format(line, message) ==
    IF line.matched /\ line.group # <<>>
    THEN <<"(">> \o line.group \o <<") ">> \o message
    ELSE message

\* Appends with the second test an 'if' of its own instead of an 'elif'.
Appends_NoElif(entry) ==
    LET error == XML2RFC_ERROR_REGEX(entry)
        warning == XML2RFC_WARN_REGEX(entry)
        line == XML2RFC_LINE_NUMBER_REGEX(entry)
    IN Dict(IF error.matched /\ error.group # <<>>
            THEN <<Format(line, error.group)>> ELSE <<>>,
            IF warning.matched /\ warning.group # <<>>
            THEN <<Format(line, warning.group)>> ELSE <<>>)

\* One pass of the loop over the log: what the entry appends to errors and
\* to warnings.
Appends(entry) ==
    LET error == XML2RFC_ERROR_REGEX(entry)
        warning == XML2RFC_WARN_REGEX(entry)
        line == XML2RFC_LINE_NUMBER_REGEX(entry)
    IN IF error.matched /\ error.group # <<>>
       THEN Dict(<<Format(line, error.group)>>, <<>>)
       ELSE IF warning.matched /\ warning.group # <<>>
            THEN Dict(<<>>, <<Format(line, warning.group)>>)
            ELSE Dict(<<>>, <<>>)

\* list.extend of both lists
Extend(d, new) == Dict(d.errors \o new.errors, d.warnings \o new.warnings)

\* Loop with every new entry put in front of the earlier ones.
RECURSIVE Loop_Prepend(_, _)
Loop_Prepend(log, acc) ==
    IF log = <<>> THEN acc
    ELSE Loop_Prepend(Tail(log), Extend(Appends(Head(log)), acc))

RECURSIVE Loop(_, _)
Loop(log, acc) ==
    IF log = <<>> THEN acc
    ELSE Loop(Tail(log), Extend(acc, Appends(Head(log))))

\* The list the loop runs over: empty when stderr is None or b''.
LogOf(out) ==
    IF out.piped /\ out.stderr # <<>> THEN split(out.stderr) ELSE <<>>

process_xml2rfc_log(out) == Loop(LogOf(out), Dict(<<>>, <<>>))

\* update_logs returning the new entries in place of the extended accumulator.
update_logs_Replace(acc, new_entries) ==
    IF new_entries.py = "dict" THEN new_entries ELSE acc

\* update_logs putting the new entries in front.
update_logs_Prepend(acc, new_entries) ==
    IF new_entries.py = "dict" THEN Extend(new_entries, acc) ELSE acc

update_logs(acc, new_entries) ==
    IF new_entries.py = "dict" THEN Extend(acc, new_entries) ELSE acc

\* The requests do nothing meanwhile.
RenderIdle == UNCHANGED <<pc, input, dir_path, filename, rendered, xmltree,
                          response, trace, wrote, readp, captured, failed, fs,
                          dirs, default_options>>

Classify ==
    /\ result = None
    /\ result' = process_xml2rfc_log(output)
    /\ UNCHANGED <<output, logs, merged>>
    /\ RenderIdle

\* What a caller passes as new_entries: nothing, or the classified log of a
\* process it ran.
NewEntries ==
    {None, EmptyDict} \cup
    {process_xml2rfc_log(out) : out \in {NoStderr} \cup {Stderr(t) : t \in SampleLogs}}

UpdateLogs ==
    /\ Len(merged) < MaxMerges
    /\ \E new_entries \in NewEntries :
          /\ logs' = update_logs(logs, new_entries)
          /\ merged' = Append(merged, new_entries)
    /\ UNCHANGED <<output, result>>
    /\ RenderIdle

InitLogs == IdleRender /\ IdleLogs /\ output \in Outputs

\* process_xml2rfc_log on every output of Outputs.
NextLogs == Classify

SpecLogs == InitLogs /\ [][NextLogs]_vars

\* Calls of update_logs on one accumulator, one after the other.
NextMerge == UpdateLogs

SpecMerge == Init /\ [][NextMerge]_vars

\* ------------------------------------------------------------ observations
Invoked(r, stage) == \E i \in 1..Len(trace[r]) : trace[r][i] = stage

Converters == {"md2xml", "txt2xml"}
Writers == {"HtmlWriter", "TextWriter", "PdfWriter"}
\* The stages of the pipeline: converter, normalizer, prep, renderer.
PipelineStages == Converters \cup {"get_xml", "prep_xml"} \cup Writers

SupportedFormats == {"xml", "html", "text", "pdf"}

Accepted(r) == pc[r] # "idle" /\ ValidationError(input[r].upload) = ""

\* The error a caller is to receive for a failure of each stage.
TypedError(stage) ==
    CASE stage = "md2xml" -> "kramdown-rfc2629 error"
      [] stage = "txt2xml" -> "id2xml error"
      [] OTHER -> "xml2rfc error"

\* The files a renderer wrote for the request.
OutputFiles(r) == {p \in DOMAIN fs : fs[p].owner = r /\ fs[p].by \in Writers}

\* ------------------------------------------------------------ claims

\* C1: once a stage of a request (converter, normalizer, prep, renderer) has
\* failed, that stage is the last one invoked for the request, the caller
\* receives the typed error of that stage, and no file is returned.
C1_StageFailureTyped ==
    \A r \in Req :
        failed[r] \in PipelineStages =>
            /\ pc[r] = "done"
            /\ trace[r][Len(trace[r])] = failed[r]
            /\ response[r].kind = "json"
            /\ response[r].prefix = TypedError(failed[r])
            /\ response[r].file = NoPath

\* C2: a request whose format is outside {xml, html, text, pdf} invokes no
\* stage at all (converter, normalizer, prep, renderer), and, its workspace
\* once allocated, ends with the unsupported-format error.
C2_UnsupportedNoStage ==
    \A r \in Req :
        (Accepted(r) /\ input[r].format \notin SupportedFormats) =>
            /\ \A stage \in PipelineStages : ~Invoked(r, stage)
            /\ (pc[r] = "done" /\ failed[r] # "mkdir") =>
                 response[r] = JsonError("render format not supported", <<>>)

\* C3: no request ends in an exception that render() did not turn into a
\* structured failure.
C3_NoRawException ==
    \A r \in Req : pc[r] = "done" => response[r].kind # "unhandled"

\* C4: a request for the xml format never invokes prep_xml (nor a writer),
\* and once get_xml has succeeded it returns the normalized XML file itself.
C4_XmlSkipsPrep ==
    \A r \in Req :
        (Accepted(r) /\ input[r].format = "xml") =>
            /\ ~Invoked(r, "prep_xml")
            /\ \A w \in Writers : ~Invoked(r, w)
            /\ (pc[r] = "done" /\ Invoked(r, "get_xml") /\ failed[r] = "") =>
                 /\ response[r] = Attachment(filename[r])
                 /\ fs[filename[r]].doc.wf
                 /\ fs[filename[r]].by \notin Writers

C4_Witness ==
    \E r \in Req :
        /\ input[r].format = "xml"
        /\ pc[r] = "done"
        /\ response[r].kind = "attachment"
        /\ Invoked(r, "get_xml")

\* C5: when the XML handed to get_xml is not well-formed, the request fails
\* with the XML syntax error, neither prep_xml nor a writer is invoked, and
\* no rendered file exists for the request.
C5_MalformedStops ==
    \A r \in Req :
        (Invoked(r, "get_xml") /\ ~fs[filename[r]].doc.wf) =>
            /\ pc[r] = "done"
            /\ failed[r] = "get_xml"
            /\ response[r] = JsonError("xml2rfc error", <<"XMLSyntaxError">>)
            /\ ~Invoked(r, "prep_xml")
            /\ \A w \in Writers : ~Invoked(r, w)
            /\ OutputFiles(r) = {}

C5_Witness ==
    \E r \in Req :
        /\ Invoked(r, "get_xml")
        /\ ~fs[filename[r]].doc.wf
        /\ input[r].format \in PrepFormats
        /\ pc[r] = "done"

\* C6: two distinct requests, in any interleaving and also when they upload
\* files of the same name, have different workspace directories, and no path
\* one of them wrote is written or read by the other.
C6_WorkspacesDisjoint ==
    \A r1 \in Req : \A r2 \in Req \ {r1} :
        /\ dir_path[r1] # <<>> => dir_path[r1] # dir_path[r2]
        /\ wrote[r1] \cap (wrote[r2] \cup readp[r2]) = {}
        /\ \A p \in wrote[r1] : p.dir = dir_path[r1]

C6_Witness ==
    \E r1 \in Req : \E r2 \in Req \ {r1} :
        /\ input[r1].upload.filename = input[r2].upload.filename
        /\ pc[r1] \in {"normalize", "dispatch", "write", "send"}
        /\ pc[r2] \in {"normalize", "dispatch", "write", "send"}
        /\ wrote[r1] # {} /\ wrote[r2] # {}
        /\ get_file(filename[r1]) = get_file(filename[r2])

\* The extension of the uploaded filename, as allowed_file reads it.
UploadExt(r) == Lower(RSplitLast(input[r].upload.filename))

\* The request is past lines 75-80, where the converter is chosen.
PastConvert(r) ==
    Accepted(r) /\ pc[r] \notin {"process_file", "save", "convert"}
                /\ failed[r] # "mkdir"

\* C7: the extension of the upload alone selects the first stage: md and mkd
\* invoke md2xml and never txt2xml, txt invokes txt2xml and never md2xml,
\* xml invokes neither; in any letter case, for every accepted upload.
C7_ExtensionSelectsStage ==
    \A r \in Req :
        PastConvert(r) =>
            /\ UploadExt(r) \in {"md", "mkd"} =>
                 Invoked(r, "md2xml") /\ ~Invoked(r, "txt2xml")
            /\ UploadExt(r) = "txt" =>
                 Invoked(r, "txt2xml") /\ ~Invoked(r, "md2xml")
            /\ UploadExt(r) = "xml" =>
                 ~Invoked(r, "md2xml") /\ ~Invoked(r, "txt2xml")

NormalizerSucceeded(r) == Invoked(r, "get_xml") /\ failed[r] # "get_xml"

\* C8: after get_xml has succeeded, the root version of the XML file is "3",
\* whatever the version was before.
C8_AlwaysVersion3 ==
    \A r \in Req :
        NormalizerSucceeded(r) => fs[filename[r]].doc = XmlDoc("3")

\* C9: running get_xml on the file a successful get_xml left behind parses,
\* leaves the version as it is, and for a version 3 file upgrades nothing
\* and rewrites nothing; an uploaded version 3 file is never rewritten.
C9_NormalizerIdempotent ==
    \A r \in Req :
        NormalizerSucceeded(r) =>
            LET once == fs[filename[r]].doc
                twice == get_xml_doc(once)
            IN  /\ ParseError(once) = ""
                /\ twice.ver = once.ver
                /\ get_xml_doc(twice) = twice
                /\ once.ver = "3" => (~get_xml_writes(once) /\ twice = once)
                /\ ((\A c \in Converters : ~Invoked(r, c))
                      /\ input[r].upload.body = XmlDoc("3")) =>
                     /\ fs[filename[r]].by = "save"
                     /\ once = input[r].upload.body

C9_Witness ==
    \E r \in Req :
        /\ NormalizerSucceeded(r)
        /\ fs[filename[r]].by = "get_xml"
        /\ fs[filename[r]].doc.ver = "3"
        /\ pc[r] = "done"

C9_WitnessV3 ==
    \E r \in Req :
        /\ NormalizerSucceeded(r)
        /\ input[r].upload.body = XmlDoc("3")
        /\ fs[filename[r]].by = "save"
        /\ pc[r] = "done"

Delivered(resp) == IF resp.kind = "json" THEN resp.detail ELSE <<>>

\* C11: when a stage fails, the diagnostics of that stage (the converter's
\* stderr, the parser's message, prep's error list, the writer's message)
\* are in the failure the caller receives.
C11_DiagnosticsDelivered ==
    \A r \in Req :
        failed[r] \in PipelineStages =>
            /\ Delivered(response[r]) = response[r].detail
            /\ failed[r] \in Converters =>
                 Delivered(response[r]) = <<captured[r]>>


\* ------------------------------------------------------------ log claims
Classified == result.py = "dict"

\* The entry matches both the error pattern and the warning pattern.
MatchesBoth(entry) ==
    XML2RFC_ERROR_REGEX(entry).matched /\ XML2RFC_WARN_REGEX(entry).matched

HasErrorMessage(entry) == XML2RFC_ERROR_REGEX(entry).group # <<>>
HasWarningMessage(entry) == XML2RFC_WARN_REGEX(entry).group # <<>>

Range(seq) == {seq[i] : i \in 1..Len(seq)}

\* C12 as stated: a log whose lines all match both the error pattern and the
\* warning pattern gives one error entry for each line and no warning entry.
C12_BothIsError ==
    Classified /\ (\A entry \in Range(LogOf(output)) : MatchesBoth(entry)) =>
        /\ Len(result.errors) = Len(LogOf(output))
        /\ result.warnings = <<>>

\* C12, amended: a log whose lines all match both patterns, the error
\* pattern with a non-empty message, gives one error entry for each line and
\* no warning entry; a log whose lines all match both patterns, the error
\* pattern with an empty message, gives one warning entry for each line and
\* no error entry.
C12_BothWithMessageIsError ==
    /\ Classified /\ (\A entry \in Range(LogOf(output)) :
                         MatchesBoth(entry) /\ HasErrorMessage(entry)) =>
           /\ Len(result.errors) = Len(LogOf(output))
           /\ result.warnings = <<>>
    /\ Classified /\ (\A entry \in Range(LogOf(output)) :
                         MatchesBoth(entry) /\ ~HasErrorMessage(entry)) =>
           /\ Len(result.warnings) = Len(LogOf(output))
           /\ result.errors = <<>>

C12_Witness ==
    /\ Classified
    /\ LogOf(output) # <<>>
    /\ \A entry \in Range(LogOf(output)) :
          MatchesBoth(entry) /\ HasErrorMessage(entry) /\ HasWarningMessage(entry)
    /\ result.errors # <<>>


\* "(<line>) <message>"
Numbered(line, message) == <<"(">> \o line \o <<") ">> \o message

\* The lines of the log that match the error pattern with a non-empty
\* message, and those that match the warning pattern with one.
ErrorLines(log) ==
    {k \in 1..Len(log) :
        XML2RFC_ERROR_REGEX(log[k]).matched /\ HasErrorMessage(log[k])}
WarningLines(log) ==
    {k \in 1..Len(log) :
        XML2RFC_WARN_REGEX(log[k]).matched /\ HasWarningMessage(log[k])}

\* The entry of a line for message, when a captured token counts whatever
\* it holds, and when only a non-empty one counts.
EntryIfCaptured(entry, message) ==
    IF XML2RFC_LINE_NUMBER_REGEX(entry).matched
    THEN Numbered(XML2RFC_LINE_NUMBER_REGEX(entry).group, message)
    ELSE message
EntryIfNonEmpty(entry, message) ==
    IF XML2RFC_LINE_NUMBER_REGEX(entry).group # <<>>
    THEN Numbered(XML2RFC_LINE_NUMBER_REGEX(entry).group, message)
    ELSE message

\* C13 as stated: the errors are one entry for each line that matches the
\* error pattern with a non-empty message, the warnings one entry for each
\* line that matches the warning pattern with a non-empty message, and an
\* entry is "(<line>) <message>" when the line pattern captured a token on
\* its line and the bare message otherwise.
C13_OneEntryEach ==
    Classified =>
        LET log == LogOf(output)
        IN /\ Len(result.errors) = Cardinality(ErrorLines(log))
           /\ Len(result.warnings) = Cardinality(WarningLines(log))
           /\ Range(result.errors) =
                {EntryIfCaptured(log[k], XML2RFC_ERROR_REGEX(log[k]).group) :
                    k \in ErrorLines(log)}
           /\ Range(result.warnings) =
                {EntryIfCaptured(log[k], XML2RFC_WARN_REGEX(log[k]).group) :
                    k \in WarningLines(log)}

\* C13, amended: the errors are one entry for each line that matches the
\* error pattern with a non-empty message, the warnings one entry for each
\* other line that matches the warning pattern with a non-empty message,
\* and an entry is "(<line>) <message>" when the line pattern captured a
\* non-empty token on its line and the bare message otherwise.
C13_OneEntryByPrecedence ==
    Classified =>
        LET log == LogOf(output)
            warns == WarningLines(log) \ ErrorLines(log)
        IN /\ Len(result.errors) = Cardinality(ErrorLines(log))
           /\ Len(result.warnings) = Cardinality(warns)
           /\ Range(result.errors) =
                {EntryIfNonEmpty(log[k], XML2RFC_ERROR_REGEX(log[k]).group) :
                    k \in ErrorLines(log)}
           /\ Range(result.warnings) =
                {EntryIfNonEmpty(log[k], XML2RFC_WARN_REGEX(log[k]).group) :
                    k \in warns}

\* The example: "x(12): ERROR: x" gives the single error "(12) x".
C13_Witness ==
    /\ Classified
    /\ output = Stderr(<<"x", "(", "12", "): ", "ERROR: ", "x">>)
    /\ result = Dict(<< <<"(", "12", ") ", "x">> >>, <<>>)


\* The n-th smallest element of a set of numbers.
Nth(S, n) == CHOOSE x \in S : Cardinality({y \in S : y < x}) = n - 1

\* The lines the classifier takes as errors and as warnings.
TakenAsError(log) == ErrorLines(log)
TakenAsWarning(log) == WarningLines(log) \ ErrorLines(log)

\* C14: the n-th error is the entry of the n-th line taken as an error, the
\* n-th warning the entry of the n-th line taken as a warning, and there is
\* no other entry: a line matching neither pattern, a blank line and an
\* empty or missing stderr give none.
C14_InputOrder ==
    Classified =>
        LET log == LogOf(output)
        IN /\ Len(result.errors) = Cardinality(TakenAsError(log))
           /\ Len(result.warnings) = Cardinality(TakenAsWarning(log))
           /\ \A n \in 1..Len(result.errors) :
                 result.errors[n] =
                    Appends(log[Nth(TakenAsError(log), n)]).errors[1]
           /\ \A n \in 1..Len(result.warnings) :
                 result.warnings[n] =
                    Appends(log[Nth(TakenAsWarning(log), n)]).warnings[1]
           /\ (\A entry \in Range(log) : ~XML2RFC_ERROR_REGEX(entry).matched
                                          /\ ~XML2RFC_WARN_REGEX(entry).matched)
                 => result = Dict(<<>>, <<>>)

\* A log of two different errors and two different warnings, with a line
\* that matches neither pattern and blank lines between them.
C14_Witness ==
    /\ Classified
    /\ Len(LogOf(output)) = 7
    /\ result = Dict(<< <<"x">>, <<"12">> >>, << <<"12">>, <<"x">> >>)

\* Empty input gives no entry.
C14_WitnessEmpty ==
    /\ Classified
    /\ output \in {NoStderr, Stderr(<<>>)}
    /\ result = Dict(<<>>, <<>>)


\* The errors, and the warnings, of the merged entries one after the other;
\* a missing or empty new_entries has none.
RECURSIVE AllErrors(_)
AllErrors(ms) ==
    IF ms = <<>> THEN <<>>
    ELSE (IF Head(ms).py = "dict" THEN Head(ms).errors ELSE <<>>)
         \o AllErrors(Tail(ms))
RECURSIVE AllWarnings(_)
AllWarnings(ms) ==
    IF ms = <<>> THEN <<>>
    ELSE (IF Head(ms).py = "dict" THEN Head(ms).warnings ELSE <<>>)
         \o AllWarnings(Tail(ms))

\* C15: after any sequence of merges into an empty accumulator, its errors
\* are the errors of the merged entries in the order of the merges, each in
\* its own order, and likewise its warnings.
C15_MergeAppends ==
    /\ logs.py = "dict"
    /\ logs.errors = AllErrors(merged)
    /\ logs.warnings = AllWarnings(merged)

\* C15, one merge: the accumulator afterwards is the accumulator before
\* followed by the new entries, and is unchanged when they are missing or
\* empty.
C15_MergeStep ==
    [][merged' # merged =>
         LET new_entries == merged'[Len(merged')]
         IN /\ logs'.errors = logs.errors \o AllErrors(<<new_entries>>)
            /\ logs'.warnings = logs.warnings \o AllWarnings(<<new_entries>>)
            /\ (new_entries.errors = <<>> /\ new_entries.warnings = <<>>)
                  => logs' = logs]_vars

\* Two different sets of entries were merged, then a missing one.
C15_Witness ==
    /\ Len(merged) = 3
    /\ merged[1].errors # <<>> /\ merged[1].warnings # <<>>
    /\ merged[2].errors # <<>>
    /\ merged[2].errors # merged[1].errors
    /\ merged[3] = None
    /\ logs.errors = merged[1].errors \o merged[2].errors


\* ------------------------------------------------------------ later claims
\* The request's HtmlWriter runs in this step, on the options object.
HtmlWriterRuns(r) ==
    /\ pc[r] = "write" /\ pc'[r] # "write"
    /\ input[r].format = "html"

\* C16: no request reads process-wide state that another request wrote: the
\* options a request's writer is given were last assigned by that request.
C16_NoSharedOptions ==
    [][\A r \in Req : HtmlWriterRuns(r) => default_options.by = r]_vars


\* The permission bits of a mode for the owner, the group and the others:
\* read 4, write 2, execute 1.
OwnerBits(mode) == (mode \div 64) % 8
GroupBits(mode) == (mode \div 8) % 8
OtherBits(mode) == mode % 8

\* C17 as stated: the mode of every workspace directory has no permission
\* bit of the group and none of the others.
C17_OwnerOnly ==
    \A d \in DOMAIN dirs : GroupBits(dirs[d]) = 0 /\ OtherBits(dirs[d]) = 0

\* C17, amended: the mode of every workspace directory has every permission
\* bit of the owner and of the group, and none of the others.
C17_OwnerAndGroupOnly ==
    \A d \in DOMAIN dirs :
        /\ OwnerBits(dirs[d]) = 7
        /\ GroupBits(dirs[d]) = 7
        /\ OtherBits(dirs[d]) = 0

\* A request has created its workspace directory.
C17_Witness ==
    \E r \in Req : dir_path[r] # <<>> /\ dir_path[r] \in DOMAIN dirs


\* The request ended with the rendered file as its response.
Successful(r) == pc[r] = "done" /\ response[r].kind = "attachment"

\* Where the upload of the request was saved.
UploadPath(r) == Path(dir_path[r], secure_filename(input[r].upload.filename))

\* C18: after a successful request the file at the upload's path is still
\* the upload as it was saved, and the file each converter wrote is still as
\* the converter wrote it: no later stage wrote to either path.
C18_ArtifactsSeparate ==
    \A r \in Req :
        Successful(r) =>
            /\ fs[UploadPath(r)].by = "save"
            /\ \A c \in Converters :
                  Invoked(r, c) =>
                      \E p \in wrote[r] : fs[p].by = c

\* The output of a writer took the place of the upload.
C18_UploadOverwritten ==
    \E r \in Req : Successful(r) /\ fs[UploadPath(r)].by \in Writers


\* The place of a stage in the order of the pipeline.
Rank(stage) ==
    CASE stage = "mkdir" -> 0
      [] stage = "save" -> 1
      [] stage \in Converters -> 2
      [] stage = "get_xml" -> 3
      [] stage = "prep_xml" -> 4
      [] stage \in Writers -> 5

\* C19: the stages invoked for a request are in the order upload, converter,
\* normalizer, prep, renderer, none of them twice; a renderer is invoked only
\* after prep has returned a tree, and prep only after the normalizer has
\* been invoked, has not failed and has left a file that parses.
C19_StagesInOrder ==
    \A r \in Req :
        /\ \A i, j \in 1..Len(trace[r]) :
              i < j => Rank(trace[r][i]) < Rank(trace[r][j])
        /\ (\E w \in Writers : Invoked(r, w)) =>
              /\ Invoked(r, "prep_xml")
              /\ xmltree[r] = "tree"
              /\ failed[r] \notin {"prep_xml", "get_xml"}
        /\ Invoked(r, "prep_xml") =>
              /\ Invoked(r, "get_xml")
              /\ failed[r] # "get_xml"
              /\ fs[filename[r]].doc.wf

\* A markdown upload went through every stage.
C19_Witness ==
    \E r \in Req :
        /\ Successful(r)
        /\ Len(trace[r]) = 6
        /\ trace[r][3] \in Converters
        /\ trace[r][6] \in Writers


\* The request has no file part, an empty filename, or a filename whose
\* extension is not one of txt, xml, md, mkd.
Invalid(up) ==
    \/ ~up.present
    \/ up.filename = <<>>
    \/ ~allowed_file(up.filename)

\* C20: a request that input validation rejects has ended with the error of
\* the validation, without a workspace directory, without a file written or
\* read, and without a stage invoked.
C20_RejectedNoSideEffect ==
    \A r \in Req :
        pc[r] # "idle" /\ Invalid(input[r].upload) =>
            /\ pc[r] = "done"
            /\ response[r].kind = "json"
            /\ response[r].prefix \in
                  {"No file", "Filename missing", "input file format not supported"}
            /\ trace[r] = <<>>
            /\ dir_path[r] = <<>>
            /\ wrote[r] = {} /\ readp[r] = {}
            /\ \A p \in DOMAIN fs : fs[p].owner # r

\* An upload named a.pdf was rejected.
C20_Witness ==
    \E r \in Req :
        /\ pc[r] = "done"
        /\ input[r].upload.present
        /\ input[r].upload.filename = <<"a", Dot, "pdf">>
        /\ response[r] = JsonError("input file format not supported", <<>>)

====
